---- MODULE Spec2Model ----
(***************************************************************************)
(* Payment gateway with a deadline-bound one-time-code issuance.           *)
(*                                                                         *)
(* The model follows src/backend: config.py, database_original.py and     *)
(* database_with_audit.py (the two interchangeable `database` modules),   *)
(* otp_service.py and payment_service.py.                                  *)
(*                                                                         *)
(* Time.  Two clocks are kept apart:                                       *)
(*   - `now`, the wall clock in minutes, read by the expiry check;         *)
(*   - `elapsed[c]`, the milliseconds a caller has spent inside one         *)
(*     create_otp_for_payment call; it advances by POLL_INTERVAL_MS at     *)
(*     every poll sleep of get_payment_intent.                             *)
(* Latencies are kept in hundredths of a millisecond (x100).               *)
(***************************************************************************)
EXTENDS Integers, Sequences, FiniteSets, TLC

\* ---------------------------------------------------------------- config
OTP_EXPIRY_MINUTES == 2
PAYMENT_RETRY_COUNT == 3
BASE_WRITE_LATENCY_MS == 15
\* CONTENTION_FACTOR = 1.5, kept in tenths
CONTENTION_FACTOR_X10 == 15
\* the literal 0.1 of _simulate_write_latency, kept in tenths
SCALING_X10 == 1
\* time.sleep(0.01) of get_payment_intent, in ms
POLL_INTERVAL_MS == 10
\* "Need at least 50ms to create OTP session"
MIN_ISSUE_COST_MS == 50
\* database_with_audit: "Each concurrent write adds 50ms delay"
AUDIT_DELAY_PER_WRITE_MS == 50

\* ---------------------------------------------------------------- bounds
MaxSessions == 2
MaxClock == 3
MaxFaults == 1

\* The per-attempt deadlines explored, in ms: below the base write latency (0, 10)
\* and above the minimum issuance cost (60).  config.py sets OTP_TIMEOUT_MS = 400,
\* which behaves as 60 does with 34 more polls before the timeout.
Deadlines == {0, 10, 60}
\* Which module is installed as `database`.
Databases == {"original", "audit"}

Txns == {"t1", "t2"}
Issuers == {"i1"}
Verifiers == {"v1", "v2"}
Callers == Txns \cup Issuers
\* The processes that take part in one run: every mix of three kinds of calls.
\* The transactions are interchangeable and so are the verifiers, so one mix
\* stands for the mixes that differ from it by their names.
Mixes == {{"t1", "t2", "i1"}, {"t1", "t2", "v1"}, {"t1", "i1", "v1"}, {"t1", "v1", "v2"}}
\* create_payment_intent draws a fresh uuid4 per call: one intent id per transaction.
IntentIds == Txns
Codes == {1, 2}

\* Identifiers are strings of two disjoint shapes: uuid4 (36 characters, what the
\* stores generate) and 16 characters of A-Z0-9 (what generate_session_id draws).
UuidIds == {<<"uuid", k>> : k \in 1..MaxSessions}
CallerNo(c) == CASE c = "t1" -> 1 [] c = "t2" -> 2 [] OTHER -> 3
\* generate_session_id(): a draw of 36^16 values, taken as distinct per caller
GenerateSessionId(c) == <<"rand16", CallerNo(c)>>
RandIds == {GenerateSessionId(c) : c \in Callers}
NoneId == <<"none", 0>>
NoCode == 0

ReadyStatuses == {"awaiting_otp", "otp_sent", "completed"}

VARIABLES
  db,          \* the installed database module
  deadline,    \* the per-attempt deadline in ms (OTP_TIMEOUT_MS)
  active,      \* _active_transactions / _active_writes
  intents,     \* payment_intents collection: intent id -> status, "absent" if no record
  sessions,    \* otp_sessions collection: sequence of records, _id of the k-th is <<"uuid", k>>
  now,         \* wall clock, minutes
  faults,      \* store failures injected so far
  outage,      \* the otp_sessions collection rejects every insert of this run
  pc,          \* position of each orchestrated transaction
  level,       \* `concurrent` read by the latency simulation of each transaction's create
  latency,     \* what the create slept, x100 ms
  preinc,      \* history: the counter just before this create's own increment
  attempt,     \* loop variable of initiate_payment
  nIssue,      \* history: create_otp_for_payment calls made by the transaction
  nDelay,      \* history: retry sleeps made by the transaction
  result,      \* PaymentResult of the transaction
  ipc,         \* position inside create_otp_for_payment, per caller
  target,      \* payment_intent_id argument, per caller
  elapsed,     \* ms since start_time, per caller
  gen,         \* (session_id, otp_code) generated by the call
  ret,         \* return value of the call
  started,     \* the processes that have taken part in this run so far
  vpc,         \* position of each verify_otp call
  vin,         \* its arguments, and whether it is made after the expiry
  vplan,       \* the branch it took: success flag and message
  vapplied,    \* what verify_otp_session returned to it
  vresult      \* what verify_otp returned

vars == <<db, deadline, outage, active, intents, sessions, now, faults, pc, level, latency,
          preinc, attempt, nIssue, nDelay, result, ipc, target, elapsed, gen, ret,
          started, vpc, vin, vplan, vapplied, vresult>>

storeVars == <<intents, sessions>>
createVars == <<level, latency, preinc>>
txnVars == <<pc, attempt, nIssue, nDelay, result>>
issueVars == <<ipc, target, elapsed, gen, ret>>
verifyVars == <<vpc, vin, vplan, vapplied, vresult>>
envVars == <<db, deadline, outage, started>>

NoRet == [sid |-> NoneId, otp |-> NoCode, err |-> "unset"]
NotReady == [sid |-> NoneId, otp |-> NoCode, err |-> "none"]
StoreErr == [sid |-> NoneId, otp |-> NoCode, err |-> "store error"]
NoResult == [success |-> FALSE, message |-> "unset", session_id |-> NoneId,
             otp |-> NoCode, payment_id |-> "none"]
NoPlan == [success |-> FALSE, message |-> "unset"]
NoInput == [sid |-> NoneId, code |-> NoCode, late |-> FALSE]
NoGen == [sid |-> NoneId, otp |-> NoCode, expires_at |-> 0]

Init ==
  /\ db \in Databases
  /\ deadline \in Deadlines
  /\ active = 0
  /\ intents = [i \in IntentIds |-> "absent"]
  /\ sessions = <<>>
  /\ now = 0
  /\ faults = 0
  /\ outage \in BOOLEAN
  /\ pc = [t \in Txns |-> "idle"]
  /\ level = [t \in Txns |-> 0]
  /\ latency = [t \in Txns |-> 0]
  /\ preinc = [t \in Txns |-> 0]
  /\ attempt = [t \in Txns |-> 0]
  /\ nIssue = [t \in Txns |-> 0]
  /\ nDelay = [t \in Txns |-> 0]
  /\ result = [t \in Txns |-> NoResult]
  /\ ipc = [c \in Callers |-> "none"]
  /\ target = [c \in Callers |-> "none"]
  /\ elapsed = [c \in Callers |-> 0]
  /\ gen = [c \in Callers |-> NoGen]
  /\ ret = [c \in Callers |-> NoRet]
  /\ started = {}
  /\ vpc = [v \in Verifiers |-> "idle"]
  /\ vin = [v \in Verifiers |-> NoInput]
  /\ vplan = [v \in Verifiers |-> NoPlan]
  /\ vapplied = [v \in Verifiers |-> FALSE]
  /\ vresult = [v \in Verifiers |-> NoPlan]

\* ------------------------------------------------------ contention tracker
Max(a, b) == IF a >= b THEN a ELSE b

\* Variant of TrackStart: the increment is made twice.
TrackStartTwice(n) == n + 2

\* _track_transaction_start / _start_write: the counter after the call
TrackStart(n) == n + 1

\* Variant of TrackEnd: the decrement is forgotten.
TrackEndForgotten(n) == n

\* _track_transaction_end / _end_write: the counter after the call
TrackEnd(n) == Max(0, n - 1)

\* latency_ms = BASE_WRITE_LATENCY_MS * (1 + concurrent * CONTENTION_FACTOR * 0.1), x100
WriteLatencyX100(concurrent) ==
  BASE_WRITE_LATENCY_MS * (100 + concurrent * CONTENTION_FACTOR_X10 * SCALING_X10)

\* _get_contention_delay: _active_writes * 50, x100
AuditDelayX100(writes) == writes * AUDIT_DELAY_PER_WRITE_MS * 100

\* The counter value the latency simulation uses: both modules read the shared
\* counter again, under the lock, after their own increment.
ContentionRead(t) == active

SimulatedLatency(concurrent) ==
  IF db = "original" THEN WriteLatencyX100(concurrent) ELSE AuditDelayX100(concurrent)

\* A process takes part once it made its first step, and those that take part
\* stay within one mix.  The second process of a kind joins after the first.
Before(p) == CASE p = "t2" -> {"t1"} [] p = "v2" -> {"v1"} [] OTHER -> {}

Joins(p) ==
  /\ p \notin started
  /\ Before(p) \subseteq started
  /\ \E m \in Mixes : started \cup {p} \subseteq m
  /\ started' = started \cup {p}

\* ------------------------------------------------- create_payment_intent
\* _track_transaction_start() / concurrent = _start_write()
Begin(t) ==
  /\ pc[t] = "idle"
  /\ Joins(t)
  /\ active' = TrackStart(active)
  /\ preinc' = [preinc EXCEPT ![t] = active]
  /\ pc' = [pc EXCEPT ![t] = "begun"]
  /\ UNCHANGED <<db, deadline, outage, storeVars, now, faults, level, latency, attempt, nIssue,
                 nDelay, result, issueVars, verifyVars>>

\* _simulate_write_latency() / _get_contention_delay(), the sleep, and then
\* db.payment_intents.insert_one(payment_intent) with status "pending"
SleepAndInsert(t) ==
  /\ pc[t] = "begun"
  /\ level' = [level EXCEPT ![t] = ContentionRead(t)]
  /\ latency' = [latency EXCEPT ![t] = SimulatedLatency(ContentionRead(t))]
  /\ \/ /\ intents' = [intents EXCEPT ![t] = "pending"]
        /\ pc' = [pc EXCEPT ![t] = "inserted"]
        /\ UNCHANGED faults
     \/ /\ faults < MaxFaults
        /\ faults' = faults + 1
        /\ pc' = [pc EXCEPT ![t] = "failing"]
        /\ UNCHANGED intents
  /\ UNCHANGED <<envVars, active, sessions, now, preinc, attempt, nIssue,
                 nDelay, result, issueVars, verifyVars>>

\* update_one(... {"status": "awaiting_otp"}); in database_with_audit the audit-log
\* inserts around it can raise too (the first before the update, the second after it)
UpdateIntent(t) ==
  /\ pc[t] = "inserted"
  /\ \/ /\ intents' = [intents EXCEPT ![t] = "awaiting_otp"]
        /\ pc' = [pc EXCEPT ![t] = "updated"]
        /\ UNCHANGED faults
     \/ /\ faults < MaxFaults
        /\ faults' = faults + 1
        /\ pc' = [pc EXCEPT ![t] = "failing"]
        /\ UNCHANGED intents
     \/ /\ db = "audit"
        /\ faults < MaxFaults
        /\ faults' = faults + 1
        /\ intents' = [intents EXCEPT ![t] = "awaiting_otp"]
        /\ pc' = [pc EXCEPT ![t] = "failing"]
  /\ UNCHANGED <<envVars, active, sessions, now, createVars, attempt, nIssue,
                 nDelay, result, issueVars, verifyVars>>

\* Variant of Finally: the end call sits after the writes instead of in a
\* `finally` block, so an exception skips it.
FinallySkippedOnRaise(n, raised) == IF raised THEN n ELSE TrackEnd(n)

\* The counter after the `finally` block of a create that left its `try` block
\* normally (raised = FALSE) or by an exception (raised = TRUE).
Finally(n, raised) == TrackEnd(n)

\* Variant of CreationFailed: the result carries the identifier of the intent.
CreationFailedWithId(t) ==
  [success |-> FALSE, message |-> "Payment creation failed", session_id |-> NoneId,
   otp |-> NoCode, payment_id |-> t]

CreationFailed(t) ==
  [success |-> FALSE, message |-> "Payment creation failed", session_id |-> NoneId,
   otp |-> NoCode, payment_id |-> "none"]

\* finally: _track_transaction_end(); create_payment_intent returns or raises and
\* its locals are gone; then initiate_payment either returns the
\* creation failure or enters its loop and makes the first create_otp_for_payment
\* call (start_time = time.time())
End(t) ==
  /\ pc[t] \in {"updated", "failing"}
  /\ active' = Finally(active, pc[t] = "failing")
  /\ level' = [level EXCEPT ![t] = 0]
  /\ latency' = [latency EXCEPT ![t] = 0]
  /\ preinc' = [preinc EXCEPT ![t] = 0]
  /\ IF pc[t] = "failing"
       THEN /\ pc' = [pc EXCEPT ![t] = "done"]
            /\ result' = [result EXCEPT ![t] = CreationFailed(t)]
            /\ UNCHANGED <<nIssue, issueVars>>
       ELSE /\ pc' = [pc EXCEPT ![t] = "issuing"]
            /\ nIssue' = [nIssue EXCEPT ![t] = 1]
            /\ ipc' = [ipc EXCEPT ![t] = "poll"]
            /\ target' = [target EXCEPT ![t] = t]
            /\ elapsed' = [elapsed EXCEPT ![t] = 0]
            /\ UNCHANGED <<result, gen, ret>>
  /\ UNCHANGED <<envVars, storeVars, now, faults, attempt, nDelay, verifyVars>>

\* ---------------------------------------------------- get_payment_intent
\* The loop test made before each poll: database_original returns None once
\* elapsed_ms > timeout_ms, database_with_audit loops while elapsed < timeout_ms.
\* Variant of TimedOut: the loop gives up one polling interval later.
TimedOutLate(el, timeout) == el > timeout + POLL_INTERVAL_MS

TimedOut(el, timeout) ==
  IF db = "original" THEN el > timeout ELSE ~(el < timeout)

\* Variant of Ready: the filter is on the id alone.
ReadyAnyStatus(pid) == intents[pid] # "absent"

\* Variant of Ready: the filter lacks "awaiting_otp".
ReadyOnceCodeSent(pid) == intents[pid] \in {"otp_sent", "completed"}

\* Variant of Ready: the filter accepts a pending record too.
ReadyOrPending(pid) == intents[pid] \in ReadyStatuses \cup {"pending"}

\* find_one({"_id": payment_id, "status": {"$in": [...]}}) returns a record
Ready(pid) == intents[pid] \in ReadyStatuses

\* Variant of BudgetTooSmall: the remaining budget is not looked at.
BudgetUnchecked(el, timeout) == FALSE

\* Variant of BudgetTooSmall: the remaining budget only has to be positive.
BudgetTooSmallBelowZero(el, timeout) == timeout - el < 0

\* remaining_ms < 50 of create_otp_for_payment
BudgetTooSmall(el, timeout) == timeout - el < MIN_ISSUE_COST_MS

\* --------------------------------------------------------- initiate_payment
Issued(r) == r.sid # NoneId /\ r.otp # NoCode

\* Variant of IssueFailed: the result does not carry the intent identifier.
IssueFailedWithoutId(t) ==
  [success |-> FALSE, message |-> "Unable to generate OTP. Please try again.",
   session_id |-> NoneId, otp |-> NoCode, payment_id |-> "none"]

IssueFailed(t) ==
  [success |-> FALSE, message |-> "Unable to generate OTP. Please try again.",
   session_id |-> NoneId, otp |-> NoCode, payment_id |-> t]

IssueSucceeded(t, r) ==
  [success |-> TRUE, message |-> "OTP generated successfully",
   session_id |-> r.sid, otp |-> r.otp, payment_id |-> t]

\* Variant of SleepsAfter: the sleep is unconditional.
SleepsAfterAlways(a) == TRUE

\* `if attempt < PAYMENT_RETRY_COUNT - 1`: the retry sleep after a failed attempt
SleepsAfter(a) == a < PAYMENT_RETRY_COUNT - 1

\* Variant of HasNextAttempt: the loop makes one more pass.
HasNextAttemptOneMore(a) == a < PAYMENT_RETRY_COUNT

\* `for attempt in range(PAYMENT_RETRY_COUNT)`: another pass follows pass a
HasNextAttempt(a) == a + 1 < PAYMENT_RETRY_COUNT

\* create_otp_for_payment returns r to caller c.  A standalone caller is done.
\* initiate_payment goes on with the body of its loop: break on a pair; else
\* time.sleep(PAYMENT_RETRY_DELAY_MS / 1000.0) and the next call while
\* attempts remain; else the failure result.
Returns(c, r) ==
  /\ ret' = [ret EXCEPT ![c] = r]
  /\ gen' = [gen EXCEPT ![c] = NoGen]
  /\ elapsed' = [elapsed EXCEPT ![c] = 0]
  /\ IF c \in Issuers
       THEN /\ ipc' = [ipc EXCEPT ![c] = "none"]
            /\ target' = [target EXCEPT ![c] = "none"]
            /\ UNCHANGED txnVars
       ELSE /\ UNCHANGED target
            /\ IF Issued(r)
                 THEN /\ pc' = [pc EXCEPT ![c] = "done"]
                      /\ result' = [result EXCEPT ![c] = IssueSucceeded(c, r)]
                      /\ ipc' = [ipc EXCEPT ![c] = "none"]
                      /\ UNCHANGED <<attempt, nIssue, nDelay>>
                 ELSE /\ nDelay' = [nDelay EXCEPT ![c] =
                                       IF SleepsAfter(attempt[c]) THEN @ + 1 ELSE @]
                      /\ IF HasNextAttempt(attempt[c])
                           THEN /\ attempt' = [attempt EXCEPT ![c] = @ + 1]
                                /\ nIssue' = [nIssue EXCEPT ![c] = @ + 1]
                                /\ ipc' = [ipc EXCEPT ![c] = "poll"]
                                /\ UNCHANGED <<pc, result>>
                           ELSE /\ pc' = [pc EXCEPT ![c] = "done"]
                                /\ result' = [result EXCEPT ![c] = IssueFailed(c)]
                                /\ ipc' = [ipc EXCEPT ![c] = "none"]
                                /\ UNCHANGED <<attempt, nIssue>>

\* ------------------------------------------------ create_otp_for_payment
\* generate_otp_code(): a draw of 10^6 values, taken per caller
GenerateOtpCode(c) == IF c = "t2" THEN 2 ELSE 1

\* The record create_otp_session inserts: its _id is a fresh uuid4, not the
\* session_id its caller generated.
NewSession(pid, otp, expiry) ==
  [payment_intent_id |-> pid, otp |-> otp, expires_at |-> expiry,
   verified |-> FALSE, failed |-> FALSE, verified_at |-> -1]

\* The collection takes no further record: it is down for the whole run, or it
\* holds as many records as the exploration follows.
Rejecting == outage \/ Len(sessions) >= MaxSessions

\* db.otp_sessions.insert_one(session) raises: the collection takes no record,
\* or this is one of the isolated store failures.
InsertRaises == Rejecting \/ faults < MaxFaults

\* One pass of the polling loop of get_payment_intent.  On a match: the
\* remaining-budget check, the generation of session id, code and expiry, and
\* db.otp_sessions.insert_one(session) of create_otp_session.
Poll(c) ==
  /\ ipc[c] = "poll"
  /\ IF TimedOut(elapsed[c], deadline)
       THEN Returns(c, NotReady) /\ UNCHANGED <<sessions, faults>>
       ELSE IF Ready(target[c])
         THEN IF BudgetTooSmall(elapsed[c], deadline)
                THEN Returns(c, NotReady) /\ UNCHANGED <<sessions, faults>>
                ELSE \/ /\ ~Rejecting
                        /\ sessions' = Append(sessions,
                             NewSession(target[c], GenerateOtpCode(c),
                                        now + OTP_EXPIRY_MINUTES))
                        /\ gen' = [gen EXCEPT ![c] =
                                     [sid |-> GenerateSessionId(c),
                                      otp |-> GenerateOtpCode(c),
                                      expires_at |-> now + OTP_EXPIRY_MINUTES]]
                        /\ ipc' = [ipc EXCEPT ![c] = "update"]
                        /\ UNCHANGED <<faults, txnVars, target, elapsed, ret>>
                     \/ /\ InsertRaises
                        /\ faults' = IF Rejecting THEN faults ELSE faults + 1
                        /\ Returns(c, StoreErr)
                        /\ UNCHANGED sessions
         ELSE /\ elapsed' = [elapsed EXCEPT ![c] = elapsed[c] + POLL_INTERVAL_MS]
              /\ UNCHANGED <<sessions, faults, txnVars, ipc, target, gen, ret>>
  /\ UNCHANGED <<envVars, active, intents, now, createVars, verifyVars>>

\* The status create_otp_session writes to an intent whose status is `old`.
CodeSentStatus(old) == IF old = "absent" THEN "absent" ELSE "otp_sent"

\* What create_otp_for_payment returns after create_otp_session succeeded.
IssuedPair(c) == [sid |-> gen[c].sid, otp |-> gen[c].otp, err |-> "none"]

\* db.payment_intents.update_one(... {"status": "otp_sent"}) and the return
SessionUpdate(c) ==
  /\ ipc[c] = "update"
  /\ \/ /\ intents' = [intents EXCEPT ![target[c]] = CodeSentStatus(@)]
        /\ Returns(c, IssuedPair(c))
        /\ UNCHANGED faults
     \/ /\ faults < MaxFaults
        /\ faults' = faults + 1
        /\ Returns(c, StoreErr)
        /\ UNCHANGED intents
  /\ UNCHANGED <<envVars, active, sessions, now, createVars, verifyVars>>

\* ------------------------------ create_otp_for_payment called on its own
IssuerCall(i) ==
  /\ ipc[i] = "none"
  /\ Joins(i)
  /\ \E p \in IntentIds : target' = [target EXCEPT ![i] = p]
  /\ ipc' = [ipc EXCEPT ![i] = "poll"]
  /\ UNCHANGED <<db, deadline, outage, active, storeVars, now, faults, createVars, txnVars,
                 elapsed, gen, ret, verifyVars>>

\* ------------------------------------------------------------- verify_otp
\* get_otp_session: find_one({"_id": session_id}); 0 stands for None
SessionIndex(sid) ==
  IF sid[1] = "uuid" /\ sid[2] \in 1..Len(sessions) THEN sid[2] ELSE 0

\* The session ids a client submits: the _id of any stored session and any
\* session_id that create_otp_for_payment has returned.
ReturnedIds == {ret[c].sid : c \in Callers} \ {NoneId}
SidInputs == {<<"uuid", k>> : k \in 1..Len(sessions)} \cup ReturnedIds

Invalid == [success |-> FALSE, message |-> "Invalid or expired session"]
AlreadyUsed == [success |-> FALSE, message |-> "OTP already used"]
Expired == [success |-> FALSE, message |-> "OTP has expired"]
InvalidOtp == [success |-> FALSE, message |-> "Invalid OTP"]
Verified == [success |-> TRUE, message |-> "Payment verified successfully"]

\* `datetime.utcnow() > session["expires_at"]`
IsExpired(session) == now > session.expires_at

\* Variant of VerifyPlan: the code is compared before the expiry is looked at.
VerifyPlanCodeFirst(session, code) ==
  IF session.otp # code THEN InvalidOtp
  ELSE IF IsExpired(session) THEN Expired
  ELSE Verified

\* The checks verify_otp makes on the session it read, in order; the success
\* flag of the result is the `success` argument it passes to verify_otp_session.
VerifyPlan(session, code) ==
  IF IsExpired(session) THEN Expired
  ELSE IF session.otp # code THEN InvalidOtp
  ELSE Verified

\* The call is made after the expiry of the stored session it names.
CalledLate(sid) ==
  /\ SessionIndex(sid) # 0
  /\ now > sessions[SessionIndex(sid)].expires_at

\* Variant of EarlyReturn: the expiry is looked at before the verified flag.
EarlyReturnExpiryFirst(k) ==
  IF k = 0 THEN Invalid
  ELSE IF IsExpired(sessions[k]) THEN Expired
  ELSE IF sessions[k].verified THEN AlreadyUsed
  ELSE NoPlan

\* The two early returns of verify_otp on the session it read (k = 0: None):
\* `if not session` and `if session.get("verified")`; NoPlan when it goes on.
EarlyReturn(k) ==
  IF k = 0 THEN Invalid
  ELSE IF sessions[k].verified THEN AlreadyUsed
  ELSE NoPlan

\* session = database.get_otp_session(session_id), the two early returns, and
\* the choice of the branch
VerifyStart(v) ==
  /\ vpc[v] = "idle"
  /\ Joins(v)
  /\ \E sid \in SidInputs, code \in Codes :
       /\ vin' = [vin EXCEPT ![v] = [sid |-> sid, code |-> code,
                                      late |-> CalledLate(sid)]]
       /\ LET k == SessionIndex(sid) IN
          IF EarlyReturn(k) # NoPlan
            THEN /\ vresult' = [vresult EXCEPT ![v] = EarlyReturn(k)]
                 /\ vpc' = [vpc EXCEPT ![v] = "done"]
                 /\ UNCHANGED vplan
            ELSE /\ vplan' = [vplan EXCEPT ![v] = VerifyPlan(sessions[k], code)]
                 /\ vpc' = [vpc EXCEPT ![v] = "consume"]
                 /\ UNCHANGED vresult
  /\ UNCHANGED <<db, deadline, outage, active, storeVars, now, faults, createVars, txnVars,
                 issueVars, vapplied>>

\* Variant of ConsumeMatches: the filter is "failed": False.
ConsumeMatchesUnfailed(session) == ~session.failed

\* Variant of ConsumeMatches: the filter lacks "verified": False.
ConsumeMatchesAny(session) == TRUE

\* The filter of the conditional update_one of verify_otp_session
ConsumeMatches(session) == ~session.verified

\* Variant of Consumed: the failed flag is written as `success`.
ConsumedFlagSwapped(session, success) ==
  [session EXCEPT !.verified = TRUE, !.failed = success, !.verified_at = now]

\* Its $set
Consumed(session, success) ==
  [session EXCEPT !.verified = TRUE, !.failed = ~success, !.verified_at = now]

\* What verify_otp returns after verify_otp_session returned `applied`: the
\* return value of verify_otp_session is not looked at.
VerifyOutcome(plan, applied) == plan

\* database.verify_otp_session(session_id, success): the conditional update_one;
\* `result.modified_count > 0` is kept in vapplied
VerifyConsume(v) ==
  /\ vpc[v] = "consume"
  /\ LET k == SessionIndex(vin[v].sid)
         hit == ConsumeMatches(sessions[k])
     IN /\ vapplied' = [vapplied EXCEPT ![v] = hit]
        /\ sessions' = IF hit
                         THEN [sessions EXCEPT ![k] = Consumed(@, vplan[v].success)]
                         ELSE sessions
        /\ IF hit /\ vplan[v].success
             THEN /\ vpc' = [vpc EXCEPT ![v] = "finalize"]
                  /\ UNCHANGED vresult
             ELSE /\ vpc' = [vpc EXCEPT ![v] = "done"]
                  /\ vresult' = [vresult EXCEPT ![v] = VerifyOutcome(vplan[v], hit)]
  /\ UNCHANGED <<envVars, active, intents, now, faults, createVars, txnVars,
                 issueVars, vin, vplan>>

\* Variant of CompletedStatus: the update is an upsert.
CompletedStatusUpsert(old) == "completed"

\* The status verify_otp_session writes to an intent whose status is `old`.
CompletedStatus(old) == IF old = "absent" THEN "absent" ELSE "completed"

\* session = find_one(...); payment_intents.update_one(... {"status": "completed"});
\* then verify_otp_session and verify_otp return
VerifyFinalize(v) ==
  /\ vpc[v] = "finalize"
  /\ LET k == SessionIndex(vin[v].sid) IN
       intents' = [intents EXCEPT ![sessions[k].payment_intent_id] = CompletedStatus(@)]
  /\ vpc' = [vpc EXCEPT ![v] = "done"]
  /\ vresult' = [vresult EXCEPT ![v] = VerifyOutcome(vplan[v], vapplied[v])]
  /\ UNCHANGED <<envVars, active, sessions, now, faults, createVars, txnVars,
                 issueVars, vin, vplan, vapplied>>

\* ------------------------------------------------------------------ time
\* A minute passes.  The clock is read when a session is generated (expiry) and
\* when an unverified session is checked or consumed, and only differences of
\* readings are observable: it is followed while an unverified session exists.
Tick ==
  /\ now < MaxClock
  /\ \E k \in 1..Len(sessions) : ~sessions[k].verified
  /\ now' = now + 1
  /\ UNCHANGED <<envVars, active, storeVars, faults, createVars, txnVars,
                 issueVars, verifyVars>>

Next ==
  \/ \E t \in Txns : Begin(t)
  \/ \E t \in Txns : SleepAndInsert(t)
  \/ \E t \in Txns : UpdateIntent(t)
  \/ \E t \in Txns : End(t)
  \/ \E c \in Callers : Poll(c)
  \/ \E c \in Callers : SessionUpdate(c)
  \/ \E i \in Issuers : IssuerCall(i)
  \/ \E v \in Verifiers : VerifyStart(v)
  \/ \E v \in Verifiers : VerifyConsume(v)
  \/ \E v \in Verifiers : VerifyFinalize(v)
  \/ Tick

Spec == Init /\ [][Next]_vars

\* ------------------------------------------------------------- scheduling
\* The steps of a call that has been made.  Each request runs in a thread of
\* its own; no step waits for a lock another request holds across steps, and
\* every sleep ends: a call that can take a step eventually takes one.
TxnStep(t) ==
  SleepAndInsert(t) \/ UpdateIntent(t) \/ End(t) \/ Poll(t) \/ SessionUpdate(t)
IssuerStep(i) == Poll(i) \/ SessionUpdate(i)

Fairness ==
  /\ \A t \in Txns : WF_vars(TxnStep(t))
  /\ \A i \in Issuers : WF_vars(IssuerStep(i))

FairSpec == Init /\ [][Next]_vars /\ Fairness

\* ================================================================ claims
InCreate(t) == pc[t] \in {"begun", "inserted", "updated", "failing"}
HasSlept(t) == pc[t] \in {"inserted", "updated", "failing"}
\* verify_otp call v has made its verify_otp_session call
Attempted(v) == vpc[v] \in {"finalize", "done"} /\ vplan[v] # NoPlan
Consumers(k) == {v \in Verifiers : Attempted(v) /\ vin[v].sid = <<"uuid", k>>}
Winners(k) == {v \in Consumers(k) : vapplied[v]}

\* C1: with a deadline above the minimum issuance cost and no store failure, the
\* first create_otp_for_payment call of a transaction returns a pair, and the
\* first verify_otp call made with the returned session id and code returns
\* success and leaves the intent completed.
C1_SuccessScenario ==
  \A t \in Txns :
    /\ (pc[t] = "done" /\ deadline >= MIN_ISSUE_COST_MS /\ faults = 0)
         => (result[t].success /\ nIssue[t] = 1)
    /\ \A v \in Verifiers :
         ( /\ result[t].success
           /\ vpc[v] = "done"
           /\ vin[v].sid = result[t].session_id
           /\ vin[v].code = result[t].otp
           /\ \A w \in Verifiers \ {v} : vpc[w] = "idle" )
         => (vresult[v].success /\ intents[t] = "completed")

\* C2: of the verify_otp calls on one session, a call whose verify_otp_session
\* returned false reports "OTP already used"; at most one call returns success
\* and no two calls report different outcomes other than "OTP already used".
C2_SingleVerifyOutcome ==
  \A v \in Verifiers :
    /\ (vpc[v] = "done" /\ Attempted(v) /\ ~vapplied[v]) => vresult[v] = AlreadyUsed
    /\ \A w \in Verifiers \ {v} :
         (vpc[v] = "done" /\ vpc[w] = "done" /\ vin[v].sid = vin[w].sid
            /\ SessionIndex(vin[v].sid) # 0)
         => /\ ~(vresult[v].success /\ vresult[w].success)
            /\ (vresult[v] # AlreadyUsed /\ vresult[w] # AlreadyUsed)
                 => vresult[v] = vresult[w]

\* C3: of the verify_otp_session calls made on one session exactly one applies;
\* the stored verified and failed flags are the ones that call wrote; only a
\* call that applied with success = true goes on to mark the intent completed,
\* and a completed intent owns a session whose winner passed success = true.
C3_SingleWinner ==
  /\ \A k \in 1..Len(sessions) :
       /\ sessions[k].verified <=> Consumers(k) # {}
       /\ Consumers(k) # {} => Cardinality(Winners(k)) = 1
       /\ \A w \in Winners(k) : sessions[k].failed = ~vplan[w].success
  /\ \A v \in Verifiers :
       vpc[v] = "finalize" => (vapplied[v] /\ vplan[v].success)
  /\ \A i \in IntentIds :
       intents[i] = "completed" =>
         \E k \in 1..Len(sessions) :
           /\ sessions[k].payment_intent_id = i
           /\ \E w \in Winners(k) : vplan[w].success

\* Two verify_otp_session calls were made on one session and both returned.
C3_Witness ==
  \E k \in 1..Len(sessions) :
    /\ Cardinality(Consumers(k)) = 2
    /\ \A v \in Consumers(k) : vpc[v] = "done"
    /\ \E v \in Consumers(k) : ~vapplied[v]

LegalEdges ==
  {<<"absent", "pending">>, <<"pending", "awaiting_otp">>,
   <<"awaiting_otp", "otp_sent">>, <<"otp_sent", "completed">>}

\* C4: every change of an intent's stored status follows one edge of
\* (no record) -> pending -> awaiting_otp -> otp_sent -> completed.
C4_LegalTransitions ==
  [][\A i \in IntentIds :
       intents'[i] # intents[i] => <<intents[i], intents'[i]>> \in LegalEdges]_vars

\* C5: the contention counter is never negative and is 0 whenever no create is
\* between its begin and its end.
C5_CounterBounds ==
  /\ active >= 0
  /\ (\A t \in Txns : ~InCreate(t)) => active = 0

\* Both transactions began and ended their write.
C5_Witness ==
  /\ active = 0
  /\ \A t \in Txns : pc[t] # "idle" /\ ~InCreate(t)

\* C6: the counter equals the number of creates between their begin and their
\* end, whichever way each create leaves (return or exception).
C6_NoLeakedBegin ==
  active = Cardinality({t \in Txns : InCreate(t)})

\* A create failed, its end ran, while the other transaction's create is in flight.
C6_Witness ==
  \E t \in Txns :
    /\ pc[t] = "done"
    /\ result[t] = CreationFailed(t)
    /\ \E u \in Txns \ {t} : InCreate(u)
    /\ active = 1

\* C7: with a deadline below the base write latency every create_otp_for_payment
\* call returns not_ready and no session is stored; a transaction whose create
\* succeeded ends with the generic failure after 3 calls and 2 retry sleeps.
C7_Exhaustion ==
  deadline < BASE_WRITE_LATENCY_MS =>
    /\ \A c \in Callers : ret[c] \in {NoRet, NotReady}
    /\ sessions = <<>>
    /\ \A t \in Txns :
         /\ nDelay[t] <= 2 /\ nIssue[t] <= 3
         /\ (pc[t] = "done" /\ result[t] # CreationFailed(t)) =>
              (result[t] = IssueFailed(t) /\ nIssue[t] = 3 /\ nDelay[t] = 2)

\* A transaction exhausted its attempts under a deadline below the base latency.
C7_Witness ==
  /\ deadline < BASE_WRITE_LATENCY_MS
  /\ \E t \in Txns : pc[t] = "done" /\ result[t] = IssueFailed(t) /\ ret[t] = NotReady

\* verify_otp call v was made after the expiry of the stored session it names.
AfterExpiry(v) == vin[v].late

\* C8 as stated: every verify_otp call made after the session's expiry returns
\* "OTP has expired" and leaves the session verified and failed.
C8_AlwaysExpired ==
  \A v \in Verifiers :
    (vpc[v] = "done" /\ AfterExpiry(v)) =>
      /\ vresult[v] = Expired
      /\ sessions[SessionIndex(vin[v].sid)].verified
      /\ sessions[SessionIndex(vin[v].sid)].failed

\* C8 amended: a verify_otp call made after the expiry of a session that is
\* unverified when the call reads it takes the expired branch whatever the code:
\* it passes success = false, never reaches the write of the intent, returns
\* "OTP has expired", leaves the session verified, and failed when its own
\* update applied.
C8_ExpiredWhenUnverified ==
  \A v \in Verifiers :
    (vpc[v] # "idle" /\ AfterExpiry(v) /\ vplan[v] # NoPlan) =>
      /\ vplan[v] = Expired
      /\ vpc[v] # "finalize"
      /\ vpc[v] = "done" =>
           /\ vresult[v] = Expired
           /\ sessions[SessionIndex(vin[v].sid)].verified
           /\ vapplied[v] => sessions[SessionIndex(vin[v].sid)].failed

\* A call made after expiry with the stored code consumed the session as failed.
C8_Witness ==
  \E v \in Verifiers :
    /\ vpc[v] = "done" /\ AfterExpiry(v) /\ vapplied[v]
    /\ vin[v].code = sessions[SessionIndex(vin[v].sid)].otp
    /\ vresult[v] = Expired
    /\ sessions[SessionIndex(vin[v].sid)].failed
    /\ intents[sessions[SessionIndex(vin[v].sid)].payment_intent_id] # "completed"

\* C9: the contention level a create applies is the value the counter had just
\* before the create's own increment.
C9_LevelIsPreIncrement ==
  \A t \in Txns : HasSlept(t) => level[t] = preinc[t]

\* C10: a create of database_original sleeps
\* BASE_WRITE_LATENCY_MS * (1 + level * 1.5 * 0.1) ms, which is 15, 17.25 and
\* 37.5 ms at levels 0, 1 and 10; a create that began with no other write in
\* flight sleeps 15 ms.
C10_LatencyFormula ==
  /\ WriteLatencyX100(0) = 1500
  /\ WriteLatencyX100(1) = 1725
  /\ WriteLatencyX100(10) = 3750
  /\ \A t \in Txns :
       (HasSlept(t) /\ db = "original") =>
         /\ latency[t] = WriteLatencyX100(level[t])
         /\ preinc[t] = 0 => latency[t] = 1500

\* C11: once a session is verified, no step changes its verified, failed or
\* verified_at fields, and the session stays in the collection.
C11_VerifiedIsFinal ==
  [][\A k \in 1..Len(sessions) :
       sessions[k].verified =>
         /\ k <= Len(sessions')
         /\ sessions'[k].verified
         /\ sessions'[k].failed = sessions[k].failed
         /\ sessions'[k].verified_at = sessions[k].verified_at]_vars

\* A session consumed as failed stayed failed through a later
\* verify_otp_session call that passed success = true.
C11_Witness ==
  \E k \in 1..Len(sessions) :
    /\ sessions[k].verified /\ sessions[k].failed
    /\ \E v \in Consumers(k) : vpc[v] = "done" /\ ~vapplied[v] /\ vplan[v].success

\* C12: a transaction whose create succeeded and whose create_otp_for_payment
\* calls all failed made PAYMENT_RETRY_COUNT of them and returns the failure
\* "Unable to generate OTP. Please try again." with the id of its intent,
\* whether the calls returned not_ready or a store error.
C12_GenericExhaustion ==
  \A t \in Txns :
    (pc[t] = "done" /\ nIssue[t] >= 1 /\ ~Issued(ret[t])) =>
      /\ ret[t] \in {NotReady, StoreErr}
      /\ nIssue[t] = PAYMENT_RETRY_COUNT
      /\ ~result[t].success
      /\ result[t].message = "Unable to generate OTP. Please try again."
      /\ result[t].payment_id = t
      /\ result[t].session_id = NoneId /\ result[t].otp = NoCode
      /\ intents[t] # "absent"

\* A transaction exhausted its attempts and the last one reported a store error.
C12_Witness ==
  \E t \in Txns :
    /\ pc[t] = "done" /\ nIssue[t] = PAYMENT_RETRY_COUNT
    /\ ret[t] = StoreErr
    /\ result[t].message = "Unable to generate OTP. Please try again."

\* C13: a transaction whose create_payment_intent raised returns the creation
\* failure with no intent id and has made no create_otp_for_payment call and no
\* retry sleep; a session of its intent is the work of a standalone issuer.
C13_CreateFailureIsFinal ==
  \A t \in Txns :
    /\ pc[t] = "failing" =>
         (nIssue[t] = 0 /\ nDelay[t] = 0 /\ ipc[t] = "none" /\ ret[t] = NoRet)
    /\ (pc[t] = "done" /\ nIssue[t] = 0) =>
         /\ ~result[t].success
         /\ result[t].message = "Payment creation failed"
         /\ result[t].payment_id = "none"
         /\ result[t].session_id = NoneId /\ result[t].otp = NoCode
         /\ nDelay[t] = 0 /\ attempt[t] = 0
         /\ ipc[t] = "none" /\ ret[t] = NoRet /\ gen[t] = NoGen
         /\ \A k \in 1..Len(sessions) :
              sessions[k].payment_intent_id = t => Issuers \cap started # {}

\* A create failed at its status update and left the record pending.
C13_Witness ==
  \E t \in Txns :
    /\ pc[t] = "done" /\ nIssue[t] = 0
    /\ result[t].message = "Payment creation failed"
    /\ intents[t] = "pending"

\* Caller c makes one pass of the polling loop of get_payment_intent.
PollStep(c) ==
  /\ ipc[c] = "poll"
  /\ \/ ipc'[c] # "poll"
     \/ elapsed'[c] # elapsed[c]
     \/ ret'[c] # ret[c]
     \/ c \in Txns /\ nIssue'[c] # nIssue[c]

\* The pass neither found a record nor gave up: the loop sleeps and goes on.
PollsOn(c) ==
  /\ PollStep(c)
  /\ ipc'[c] = "poll"
  /\ ret'[c] = ret[c]
  /\ c \in Txns => nIssue'[c] = nIssue[c]

\* C14: get_payment_intent never waits longer than the timeout plus one polling
\* interval: a pass that does not return adds one interval to the elapsed time,
\* and a pass made after the elapsed time exceeded the timeout makes no poll
\* and returns not-found, so the call returns after a bounded number of passes.
C14_BoundedWait ==
  [][\A c \in Callers :
       /\ elapsed'[c] <= deadline + POLL_INTERVAL_MS
       /\ PollsOn(c) =>
            /\ elapsed[c] <= deadline
            /\ elapsed'[c] = elapsed[c] + POLL_INTERVAL_MS
       /\ (PollStep(c) /\ elapsed[c] > deadline) =>
            /\ ret'[c] = NotReady
            /\ elapsed'[c] = 0
            /\ sessions' = sessions /\ intents' = intents]_vars

\* A call has waited the timeout plus one polling interval, through several polls.
C14_Witness ==
  \E c \in Callers :
    /\ ipc[c] = "poll"
    /\ deadline > POLL_INTERVAL_MS
    /\ elapsed[c] = deadline + POLL_INTERVAL_MS

Statuses == {"absent", "pending", "awaiting_otp", "otp_sent", "completed"}
Owner(v) == sessions[SessionIndex(vin[v].sid)].payment_intent_id

\* C15: the completed status write is idempotent and a no-op on an absent
\* intent; the write of a verify_otp_session call leaves the owning intent
\* completed, changes nothing when the intent was completed already, touches no
\* other intent, and the call returns success.
C15_MarkCompletedIdempotent ==
  [][/\ \A s \in Statuses :
          /\ CompletedStatus(CompletedStatus(s)) = CompletedStatus(s)
          /\ s # "absent" => CompletedStatus(s) = "completed"
     /\ CompletedStatus("absent") = "absent"
     /\ \A v \in Verifiers :
          (vpc[v] = "finalize" /\ vpc'[v] = "done") =>
            /\ intents'[Owner(v)] = "completed"
            /\ \A j \in IntentIds \ {Owner(v)} : intents'[j] = intents[j]
            /\ intents[Owner(v)] = "completed" => intents' = intents
            /\ vresult'[v] = Verified]_vars

\* Two sessions of one intent were each consumed with success and both calls
\* wrote the completed status.
C15_Witness ==
  \E v, w \in Verifiers :
    /\ vin[v].sid # vin[w].sid
    /\ vpc[v] = "done" /\ vapplied[v] /\ vplan[v].success
    /\ vpc[w] = "done" /\ vapplied[w] /\ vplan[w].success
    /\ Owner(v) = Owner(w)
    /\ intents[Owner(v)] = "completed"

\* C16: when create_otp_for_payment returns a pair, get_otp_session of the
\* returned session id finds a session that holds the returned code, belongs to
\* the intent the call was made for, and is unverified.
C16_ReturnedPairFindsSession ==
  [][\A c \in Callers :
       (Issued(ret'[c]) /\ ipc[c] = "update" /\ ipc'[c] # "update") =>
         LET sid == ret'[c].sid IN
           /\ sid[1] = "uuid"
           /\ sid[2] \in 1..Len(sessions')
           /\ sessions'[sid[2]].otp = ret'[c].otp
           /\ sessions'[sid[2]].payment_intent_id = target[c]
           /\ ~sessions'[sid[2]].verified]_vars

\* C17: an intent whose status is completed owns a session that is verified
\* and not failed.
C17_CompletedHasVerifiedSession ==
  \A i \in IntentIds :
    intents[i] = "completed" =>
      \E k \in 1..Len(sessions) :
        /\ sessions[k].payment_intent_id = i
        /\ sessions[k].verified
        /\ ~sessions[k].failed

\* An intent is completed while another of its sessions was consumed as failed.
C17_Witness ==
  \E i \in IntentIds :
    /\ intents[i] = "completed"
    /\ \E k \in 1..Len(sessions) :
         sessions[k].payment_intent_id = i /\ sessions[k].verified /\ sessions[k].failed

CreatesInFlight == Cardinality({x \in Txns : InCreate(x)})
\* Transaction t is inside its retry loop: in a create_otp_for_payment call or
\* in the sleep between two of them.
InRetryLoop(t) == pc[t] = "issuing"

\* C18: a create that reads the contention level while another transaction is
\* inside its retry loop observes a level, and sleeps a latency, above the ones
\* that the creates in flight alone account for.
C18_RetriesRaiseContention ==
  [][\A u \in Txns :
       ( /\ pc[u] = "begun" /\ pc'[u] # "begun"
         /\ \E t \in Txns \ {u} : InRetryLoop(t) ) =>
         /\ level'[u] > CreatesInFlight
         /\ latency'[u] > SimulatedLatency(CreatesInFlight)]_vars

\* The positions of a transaction: create (begun, inserted, updated / failing),
\* the retry loop (issuing), the return (done).
TxnEdges ==
  {<<"idle", "begun">>, <<"begun", "inserted">>, <<"begun", "failing">>,
   <<"inserted", "updated">>, <<"inserted", "failing">>, <<"updated", "issuing">>,
   <<"failing", "done">>, <<"issuing", "done">>}

TxnShape(t) ==
  /\ nIssue[t] <= PAYMENT_RETRY_COUNT
  /\ pc[t] = "issuing" => (nIssue[t] >= 1 /\ nIssue[t] = attempt[t] + 1)
  /\ (pc[t] = "done" /\ result[t].message # "Payment creation failed") => nIssue[t] >= 1
  /\ Issued(ret[t]) =>
       /\ pc[t] = "done" /\ ipc[t] = "none"
       /\ result[t].session_id = ret[t].sid /\ result[t].otp = ret[t].otp
  /\ (pc[t] = "done" /\ nIssue[t] >= 1) => (result[t].success <=> Issued(ret[t]))
  /\ result[t].success => (pc[t] = "done" /\ nIssue[t] >= 1)

\* C19: a transaction enters create once and never returns to it; once its
\* create succeeded it makes between 1 and PAYMENT_RETRY_COUNT
\* create_otp_for_payment calls, one at a time, none after a call that returned
\* a pair, and it returns success exactly when its last call returned a pair,
\* carrying that pair.
C19_TxnStateMachine ==
  [][\A t \in Txns :
       /\ pc'[t] # pc[t] => <<pc[t], pc'[t]>> \in TxnEdges
       /\ nIssue'[t] \in {nIssue[t], nIssue[t] + 1}
       /\ nIssue'[t] # nIssue[t] => (~Issued(ret[t]) /\ pc'[t] = "issuing")
       /\ TxnShape(t)']_vars

\* A transaction returned success from its second create_otp_for_payment call.
C19_Witness ==
  \E t \in Txns :
    /\ pc[t] = "done" /\ result[t].success
    /\ nIssue[t] = 2 /\ nDelay[t] = 1

\* C20: a create_otp_for_payment call whose get_payment_intent found the record
\* with less than MIN_ISSUE_COST_MS of its deadline left returns not_ready and
\* stores nothing; under a deadline below MIN_ISSUE_COST_MS no call returns a
\* pair and no session is stored.
C20_BudgetGuard ==
  [][/\ \A c \in Callers :
          ( /\ PollStep(c)
            /\ ~TimedOut(elapsed[c], deadline)
            /\ Ready(target[c])
            /\ deadline - elapsed[c] < MIN_ISSUE_COST_MS ) =>
            /\ ret'[c] = NotReady
            /\ ipc'[c] # "update"
            /\ sessions' = sessions /\ intents' = intents
     /\ deadline < MIN_ISSUE_COST_MS =>
          /\ sessions' = <<>>
          /\ \A c \in Callers : ~Issued(ret'[c]) /\ ipc'[c] # "update"]_vars

\* Under a deadline of 10 ms every call of a transaction found its intent at
\* once, had less than 50 ms left, and returned not_ready.
C20_Witness ==
  \E t \in Txns :
    /\ deadline > 0 /\ deadline < MIN_ISSUE_COST_MS
    /\ pc[t] = "done" /\ nIssue[t] = PAYMENT_RETRY_COUNT
    /\ ret[t] = NotReady
    /\ Ready(t)
    /\ sessions = <<>>

\* Under a deadline above the cost a standalone call found, after two poll
\* sleeps, a record that had just become ready, with too little budget left.
C20_LargeDeadlineCase ==
  \E c \in Issuers :
    /\ deadline >= MIN_ISSUE_COST_MS
    /\ ipc[c] = "poll" /\ elapsed[c] > 0
    /\ ~TimedOut(elapsed[c], deadline)
    /\ Ready(target[c])
    /\ deadline - elapsed[c] < MIN_ISSUE_COST_MS

\* create_payment_intent of transaction t raised.
CreateRaised(t) == pc[t] = "failing" \/ (pc[t] = "done" /\ nIssue[t] = 0)

\* C21: when create_payment_intent is about to return its record the stored
\* intent is awaiting_otp (or further, once a standalone issuer has acted on
\* it); when it raised, the stored intent is absent or pending, and after the
\* `finally` block the counter no longer counts the create.
C21_CreateOutcomeStates ==
  \A t \in Txns :
    /\ pc[t] = "updated" =>
         /\ intents[t] \in ReadyStatuses
         /\ Issuers \cap started = {} => intents[t] = "awaiting_otp"
    /\ CreateRaised(t) => intents[t] \in {"absent", "pending"}
    /\ (pc[t] = "done" /\ nIssue[t] = 0) => active = CreatesInFlight

\* C22: get_payment_intent returns a record (the call goes on to the session
\* insert, which stores a session of that intent or raises) only when the
\* intent asked for is awaiting_otp, otp_sent or completed at that poll; on an
\* absent or pending intent a pass sleeps or returns not-found, raises nothing
\* and changes nothing in the stores.
C22_FindReadyResult ==
  [][\A c \in Callers :
       /\ (PollStep(c) /\ ~PollsOn(c) /\ (ipc'[c] = "update" \/ ret'[c] = StoreErr)) =>
            /\ intents[target[c]] \in {"awaiting_otp", "otp_sent", "completed"}
            /\ ipc'[c] = "update" =>
                 /\ Len(sessions') = Len(sessions) + 1
                 /\ sessions'[Len(sessions')].payment_intent_id = target[c]
       /\ (PollStep(c) /\ intents[target[c]] \in {"absent", "pending"}) =>
            /\ PollsOn(c) \/ ret'[c] = NotReady
            /\ sessions' = sessions /\ intents' = intents /\ faults' = faults]_vars

\* A standalone call under a sufficient deadline returned not-found: no intent
\* has been ready at any time, one of them is stored as pending.
C22_Witness ==
  \E c \in Issuers :
    /\ deadline >= MIN_ISSUE_COST_MS
    /\ ret[c] = NotReady
    /\ \A i \in IntentIds : intents[i] \in {"absent", "pending"}
    /\ \E i \in IntentIds : intents[i] = "pending"

\* C23: a verify_otp call on a session id that names no session returns
\* "Invalid or expired session", and a call on a session that is verified when
\* it is read returns "OTP already used", whatever the code and the expiry;
\* both return at once, without a verify_otp_session call and without a change
\* to any session or intent.
C23_ShortCircuit ==
  [][\A v \in Verifiers :
       (vpc[v] = "idle" /\ vpc'[v] # "idle") =>
         LET k == SessionIndex(vin'[v].sid) IN
           /\ k = 0 => vresult'[v] = [success |-> FALSE,
                                      message |-> "Invalid or expired session"]
           /\ (k # 0 /\ sessions[k].verified) =>
                vresult'[v] = [success |-> FALSE, message |-> "OTP already used"]
           /\ (k = 0 \/ sessions[k].verified) =>
                /\ vpc'[v] = "done" /\ vplan'[v] = NoPlan /\ ~vapplied'[v]
                /\ sessions' = sessions /\ intents' = intents]_vars

\* A call made after the expiry, with a code other than the stored one, on a
\* session that was verified already returned "OTP already used".
C23_Witness ==
  \E v \in Verifiers :
    /\ vpc[v] = "done" /\ vplan[v] = NoPlan
    /\ vresult[v] = AlreadyUsed
    /\ vin[v].late
    /\ vin[v].code # sessions[SessionIndex(vin[v].sid)].otp

\* C24: a verify_otp call that read an unverified, unexpired session and
\* submitted a wrong code returns "Invalid OTP" and leaves the session verified
\* and failed; no call on that session passes success = true with effect, and
\* once the wrong-code consume applied every other call on that session
\* returns "OTP already used".
C24_WrongCodeConsumes ==
  \A v \in Verifiers :
    (vpc[v] = "done" /\ vplan[v] = InvalidOtp) =>
      LET k == SessionIndex(vin[v].sid) IN
        /\ vresult[v] = InvalidOtp
        /\ sessions[k].verified /\ sessions[k].failed
        /\ \A w \in Consumers(k) : ~(vapplied[w] /\ vplan[w].success)
        /\ vapplied[v] =>
             \A w \in Verifiers \ {v} :
               (vpc[w] = "done" /\ vin[w].sid = vin[v].sid) => vresult[w] = AlreadyUsed

C26_NotReadyHasNoEffect ==
  [][\A c \in Callers :
       /\ (PollsOn(c) \/ (PollStep(c) /\ ipc'[c] # "update" /\ ret'[c] = NotReady)) =>
            /\ sessions' = sessions
            /\ intents' = intents
            /\ active' = active
       /\ ( /\ PollStep(c)
            /\ \/ elapsed[c] > deadline
               \/ deadline - elapsed[c] < MIN_ISSUE_COST_MS
                    /\ intents[target[c]] \in {"awaiting_otp", "otp_sent", "completed"} ) =>
            /\ ipc'[c] # "update" /\ ret'[c] = NotReady
            /\ sessions' = sessions
            /\ intents' = intents
            /\ active' = active]_vars

\* A standalone call returned not_ready on a store that holds a ready intent:
\* the intent is still awaiting_otp and no session exists.
C26_Witness ==
  \E c \in Issuers :
    /\ ret[c] = NotReady /\ ipc[c] = "none"
    /\ sessions = <<>>
    /\ \E i \in IntentIds : intents[i] = "awaiting_otp"

AllReturned == \A t \in Txns : pc[t] \in {"idle", "done"}

\* C27: under fair scheduling every transaction that entered initiate_payment
\* returns a result, every standalone create_otp_for_payment call returns, and
\* whenever every transaction that entered has returned the counter is 0.
C27_Termination ==
  /\ \A t \in Txns : (pc[t] # "idle") ~> (pc[t] = "done" /\ result[t] # NoResult)
  /\ \A i \in Issuers : (ipc[i] # "none") ~> (ipc[i] = "none" /\ ret[i] # NoRet)
  /\ [](AllReturned => active = 0)

\* Both transactions returned, one with a pair and one with the generic
\* failure after its third call, and the counter is back at 0.
C27_Witness ==
  /\ \A t \in Txns : pc[t] = "done"
  /\ \E t \in Txns : result[t].success
  /\ \E t \in Txns : result[t] = IssueFailed(t) /\ nIssue[t] = PAYMENT_RETRY_COUNT
  /\ active = 0

\* C28: the intent of every stored session is stored with a status other than
\* pending, and every intent that is otp_sent or completed owns a stored session.
C28_SessionsAndIntents ==
  /\ \A k \in 1..Len(sessions) :
       intents[sessions[k].payment_intent_id] \in {"awaiting_otp", "otp_sent", "completed"}
  /\ \A i \in IntentIds :
       intents[i] \in {"otp_sent", "completed"} =>
         \E k \in 1..Len(sessions) : sessions[k].payment_intent_id = i

\* A call stored a session and its status update was lost: no call is between
\* its insert and its update, and the intent of a stored session is awaiting_otp.
C28_Witness ==
  /\ \A c \in Callers : ipc[c] # "update"
  /\ \E c \in Callers : ret[c] = StoreErr
  /\ \E k \in 1..Len(sessions) :
       intents[sessions[k].payment_intent_id] = "awaiting_otp"
====
